---- MODULE Spec2Model ----
(***************************************************************************)
(* The request-lifecycle of the evolv form component                       *)
(* (src/FE/evolv-app/src/app.js): four form fields, the three submission   *)
(* state cells (result, loading, loadingText), handleSubmit with its       *)
(* rotation activity and its outstanding __jacSpawn requests, and the      *)
(* conditions under which the render shows each panel.                     *)
(***************************************************************************)
EXTENDS Integers, Sequences, FiniteSets, TLC

\* ------------------------------------------------------------------ bounds
\* Number of handleSubmit invocations explored.
MaxSubmits == 2
\* Number of form edits (onChange events) explored.
MaxEdits == 2
\* Largest score the service returns (scores are 0..MaxScore).
MaxScore == 10

\* ------------------------------------------------------------- value sets
\* The <option> values of the role <select> (app.js:42).
Roles == {"Solo Founder", "Junior Developer", "Senior Engineer", "Enterprise Team"}
\* The <option> values of the latency <select> (app.js:48).
Latencies == {"Real-time (<200ms)", "Fast (<1s)", "Moderate (<5s)", "Async (No Constraint)"}
\* Free text a user can type into the stack <input> (app.js:42-43).
StackTexts == {"", " ", "Node, Postgres"}
\* Free text a user can type into the idea <textarea> (app.js:44-45).
IdeaTexts == {"", " ", "Add a Kubernetes cluster"}

\* JavaScript null, the initial value of result (app.js:8).
Null == [isNull |-> TRUE]
\* Assessment objects the service can return as entries of response.result.
Assessments ==
  { [isNull |-> FALSE, score |-> 2, verdict |-> "Overkill"],
    [isNull |-> FALSE, score |-> 9, verdict |-> "Solid"] }

\* The result sequences explored: empty, one entry, two entries.
ResultSeqs ==
  { <<>> } \cup { << a >> : a \in Assessments }
           \cup { << a, b >> : a \in Assessments, b \in Assessments }

\* What `await __jacSpawn(...)` can resolve to (app.js:24): an object whose
\* result field is absent (present = FALSE) or a sequence of assessments.
Responses ==
  { [present |-> FALSE, result |-> <<>>] }
    \cup { [present |-> TRUE, result |-> r] : r \in ResultSeqs }
\* Placeholder for the response of a request that has not resolved.
NoResponse == [present |-> FALSE, result |-> <<>>]

\* The messages array of rotateLoadingMessages (app.js:12).
messages ==
  << "Analyzing Architecture...", "Calculating Latency Risks...",
     "Evaluating Tech Stack...", "Checking for Over-Engineering..." >>

\* ------------------------------------------------------------------ state
VARIABLES
  role, stack, techIdea, latencyReq,  \* form fields (app.js:4-7)
  result, loading, loadingText,       \* submission state cells (app.js:8-10)
  subs,      \* one record per handleSubmit invocation, in order of issue:
             \* how it was invoked, the state of its __jacSpawn promise, of the promise
             \* handleSubmit returned and of the promise its
             \* rotateLoadingMessages() call returned
  requests,  \* the __jacSpawn requests in flight: submission id -> payload
  timers,    \* submission ids whose rotation sleeps on a setTimeout
  cont,      \* id of the submission whose continuation has run setResult
             \* but not yet setLoading(false) (app.js:27-30); 0 when none
  received,  \* the response most recently delivered by __jacSpawn
  sent,      \* number of __jacSpawn calls made so far
  edits      \* number of onChange events so far

vars == << role, stack, techIdea, latencyReq, result, loading, loadingText,
           subs, requests, timers, cont, received, sent, edits >>
form == << role, stack, techIdea, latencyReq >>
cells == << result, loading, loadingText >>

\* ---------------------------------------------------------------- helpers
\* JavaScript truthiness of a string: only "" is falsy (used by !stack).
Truthy(s) == s # ""

\* len(x) of app.js:25, the Jac builtin: the number of entries.
len(x) == Len(x)

\* The 0-based index into messages of the text on display.
MsgIndex == (CHOOSE i \in 1..Len(messages) : messages[i] = loadingText) - 1

\* Variant of `disabled` without the `loading` disjunct.
DisabledIgnoresLoading == ~Truthy(stack) \/ ~Truthy(techIdea)
\* `disabled` of the submit button (app.js:48).
Disabled == loading \/ ~Truthy(stack) \/ ~Truthy(techIdea)
\* `loading && <div>loadingText</div>` (app.js:48).
ShowLoading == loading
\* Variant with the `!loading` conjunct of the result panel dropped.
ShowResultUnguarded == result # Null
\* `result && !loading && <div>...</div>` (app.js:48).
ShowResult == result # Null /\ ~loading

\* The colours getScoreColor returns (app.js:34, 36, 38).
SuccessColor == "#10B981"
WarningColor == "#F59E0B"
DangerColor == "#EF4444"

\* Variant with the first comparison strict (score > 7).
getScoreColorStrict(score) ==
  IF score > 7 THEN SuccessColor
  ELSE IF score >= 5 THEN WarningColor
  ELSE DangerColor
\* getScoreColor (app.js:32-39).
getScoreColor(score) ==
  IF score >= 7 THEN SuccessColor
  ELSE IF score >= 5 THEN WarningColor
  ELSE DangerColor

\* The border and score colour of the result panel:
\* `"3px solid " + getScoreColor(result.score)` (app.js:48).
PanelColor == getScoreColor(result.score)

\* The object literal passed to __jacSpawn (app.js:24).
Payload == [role |-> role, stack |-> stack, tech_idea |-> techIdea, latency_req |-> latencyReq]

\* The variant of the spec's SubmissionState the three cells encode.
SubmissionState ==
  IF loading THEN "Loading" ELSE IF result # Null THEN "Succeeded" ELSE "Idle"

\* ------------------------------------------------------ rotation activity
\* Variant in which the call constructs a promise (`new Promise(...)`), whose
\* executor arms the timer of app.js:16.
PromiseConstructed == "pending"
\* `Promise(resolve => {...})` of app.js:15 is a call without `new`: the
\* Promise constructor throws a TypeError before it runs its executor, so
\* setTimeout (app.js:16) is never reached.
PromiseCall == "TypeError"

\* The for loop of rotateLoadingMessages from entry i (1-based) up to its
\* first suspension: setLoadingText(messages[i]), then the await of line 15.
\* A throw inside the async function rejects its promise and ends the loop;
\* a pending promise would leave the activity asleep on its timer.
RotateFrom(i) ==
  [ idx |-> i,
    status |-> IF PromiseCall = "TypeError" THEN "rejected" ELSE "sleeping" ]

\* Variant without suspension: the loop runs through all four entries at once.
RotateWithoutAwait == [idx |-> Len(messages), status |-> "fulfilled"]
\* rotateLoadingMessages() as called, unawaited, at app.js:23.
RotateLoadingMessages == RotateFrom(1)

\* ---------------------------------------------------------------- actions
\* Variant of the initial state with the role cell starting empty
\* (useState("")) instead of at the first option.
InitBlankRole ==
  /\ role = ""
  /\ stack = ""
  /\ techIdea = ""
  /\ latencyReq = "Real-time (<200ms)"
  /\ result = Null
  /\ loading = FALSE
  /\ loadingText = "Analyzing Architecture..."
  /\ subs = <<>>
  /\ requests = << >>
  /\ timers = {}
  /\ cont = 0
  /\ received = NoResponse
  /\ sent = 0
  /\ edits = 0

\* The state after the first render: the useState initial values
\* (app.js:4-10), nothing submitted, nothing edited.
Init ==
  /\ role = "Solo Founder"
  /\ stack = ""
  /\ techIdea = ""
  /\ latencyReq = "Real-time (<200ms)"
  /\ result = Null
  /\ loading = FALSE
  /\ loadingText = "Analyzing Architecture..."
  /\ subs = <<>>
  /\ requests = << >>
  /\ timers = {}
  /\ cont = 0
  /\ received = NoResponse
  /\ sent = 0
  /\ edits = 0

\* onChange of the role <select> (app.js:40-41).
SetRole(v) ==
  /\ cont = 0 /\ edits < MaxEdits
  /\ role' = v
  /\ edits' = edits + 1
  /\ UNCHANGED << stack, techIdea, latencyReq, cells, subs, requests, timers, cont, received, sent >>

\* Variant of the stack onChange handler that also clears the result.
SetStackClearsResult(v) ==
  /\ cont = 0 /\ edits < MaxEdits
  /\ stack' = v
  /\ result' = Null
  /\ edits' = edits + 1
  /\ UNCHANGED << role, techIdea, latencyReq, loading, loadingText, subs, requests,
                  timers, cont, received, sent >>

\* onChange of the stack <input> (app.js:42-43).
SetStack(v) ==
  /\ cont = 0 /\ edits < MaxEdits
  /\ stack' = v
  /\ edits' = edits + 1
  /\ UNCHANGED << role, techIdea, latencyReq, cells, subs, requests, timers, cont, received, sent >>

\* onChange of the idea <textarea> (app.js:44-45).
SetTechIdea(v) ==
  /\ cont = 0 /\ edits < MaxEdits
  /\ techIdea' = v
  /\ edits' = edits + 1
  /\ UNCHANGED << role, stack, latencyReq, cells, subs, requests, timers, cont, received, sent >>

\* onChange of the latency <select> (app.js:46-47).
SetLatencyReq(v) ==
  /\ cont = 0 /\ edits < MaxEdits
  /\ latencyReq' = v
  /\ edits' = edits + 1
  /\ UNCHANGED << role, stack, techIdea, cells, subs, requests, timers, cont, received, sent >>

\* Variant of handleSubmit that leaves the previous result in place.
KeepResult == result
\* The argument of `setResult(null)` (app.js:22).
ResetResult == Null

\* handleSubmit up to its first suspension (app.js:20-24): setLoading(true),
\* setResult(null), the synchronous part of rotateLoadingMessages(), and the
\* __jacSpawn call whose promise it then awaits.  `via` records how it was
\* invoked; the function itself tests nothing.
HandleSubmit(via) ==
  /\ cont = 0 /\ Len(subs) < MaxSubmits
  /\ LET rot == RotateLoadingMessages
         id  == Len(subs) + 1
     IN  /\ loading' = TRUE
         /\ result' = ResetResult
         /\ loadingText' = messages[rot.idx]
         /\ timers' = IF rot.status = "sleeping" THEN timers \cup {id} ELSE timers
         /\ subs' = Append(subs, [via |-> via, request |-> "pending",
                                   handle |-> "pending", rotation |-> rot.status])
         /\ requests' = [j \in DOMAIN requests \cup {id} |->
                          IF j = id THEN Payload ELSE requests[j]]
         /\ sent' = sent + 1
  /\ UNCHANGED << form, cont, received, edits >>

\* A click on the submit button: the browser delivers it only while the
\* button is not disabled (app.js:48, onClick and disabled).
ClickSubmit ==
  /\ ~Disabled
  /\ HandleSubmit("click")

\* handleSubmit invoked although the button is disabled (spec 4.2: "if
\* invoked anyway"): the function body has no guard of its own.
InvokeSubmit ==
  /\ Disabled
  /\ HandleSubmit("call")

\* The test of app.js:25.
HasAssessment(response) == response.present /\ len(response.result) > 0

\* Variant that takes the last entry of the response instead of the first.
LastEntry(r) == r[Len(r)]
\* `response.result[0]` (app.js:26).
FirstEntry(r) == r[1]

\* The requests in flight without request i.
Without(i) == [j \in DOMAIN requests \ {i} |-> requests[j]]

\* The request of submission i resolves with `response`; handleSubmit resumes
\* after the await (app.js:24-30).  With an assessment it runs setResult and
\* print, and setLoading(false) follows in the same synchronous run
\* (FinishSettle); without one it runs setLoading(false) alone and returns.
RequestResolves(i, response) ==
  /\ cont = 0
  /\ i \in DOMAIN requests
  /\ requests' = Without(i)
  /\ received' = response
  /\ IF HasAssessment(response)
       THEN /\ result' = FirstEntry(response.result)
            /\ cont' = i
            /\ subs' = [subs EXCEPT ![i].request = "resolved"]
            /\ UNCHANGED loading
       ELSE /\ loading' = FALSE
            /\ subs' = [subs EXCEPT ![i].request = "resolved", ![i].handle = "fulfilled"]
            /\ UNCHANGED << result, cont >>
  /\ UNCHANGED << form, loadingText, timers, sent, edits >>

\* setLoading(false) and the return of handleSubmit (app.js:30-31) after
\* setResult; no other handler runs in between.
FinishSettle ==
  /\ cont # 0
  /\ loading' = FALSE
  /\ subs' = [subs EXCEPT ![cont].handle = "fulfilled"]
  /\ cont' = 0
  /\ UNCHANGED << form, result, loadingText, requests, timers, received, sent, edits >>

\* Variant with an automatic retry: on rejection the request is sent again
\* and handleSubmit keeps waiting for it.
RequestRejectsAndRetries(i) ==
  /\ cont = 0
  /\ i \in DOMAIN requests
  /\ sent' = sent + 1
  /\ UNCHANGED << form, cells, subs, requests, timers, cont, received, edits >>

\* The request of submission i rejects: the await of app.js:24 throws inside
\* handleSubmit, which has no try/catch, so its promise rejects and lines
\* 25-30 never run.
RequestRejects(i) ==
  /\ cont = 0
  /\ i \in DOMAIN requests
  /\ requests' = Without(i)
  /\ subs' = [subs EXCEPT ![i].request = "rejected", ![i].handle = "rejected"]
  /\ UNCHANGED << form, cells, timers, cont, received, sent, edits >>

Next ==
  \/ \E v \in Roles : SetRole(v)
  \/ \E v \in StackTexts : SetStack(v)
  \/ \E v \in IdeaTexts : SetTechIdea(v)
  \/ \E v \in Latencies : SetLatencyReq(v)
  \/ ClickSubmit
  \/ InvokeSubmit
  \/ \E i \in 1..MaxSubmits, response \in Responses : RequestResolves(i, response)
  \/ FinishSettle
  \/ \E i \in 1..MaxSubmits : RequestRejects(i)

Spec == Init /\ [][Next]_vars

\* The component as a user drives it: handleSubmit runs only on a click the
\* browser delivers, that is while the button is not disabled.
NextUI ==
  \/ \E v \in Roles : SetRole(v)
  \/ \E v \in StackTexts : SetStack(v)
  \/ \E v \in IdeaTexts : SetTechIdea(v)
  \/ \E v \in Latencies : SetLatencyReq(v)
  \/ ClickSubmit
  \/ \E i \in 1..MaxSubmits, response \in Responses : RequestResolves(i, response)
  \/ FinishSettle
  \/ \E i \in 1..MaxSubmits : RequestRejects(i)

SpecUI == Init /\ [][NextUI]_vars

\* Responses carrying one assessment of each score 0..MaxScore.
ScoredResponses ==
  { [present |-> TRUE,
     result |-> << [isNull |-> FALSE, score |-> s, verdict |-> "Verdict"] >>] :
    s \in 0..MaxScore }

\* The component driven through its button, with the service answering
\* every score: the runs on which the result panel is coloured.
NextScored ==
  \/ \E v \in Roles : SetRole(v)
  \/ \E v \in StackTexts : SetStack(v)
  \/ \E v \in IdeaTexts : SetTechIdea(v)
  \/ \E v \in Latencies : SetLatencyReq(v)
  \/ ClickSubmit
  \/ \E i \in 1..MaxSubmits, response \in ScoredResponses : RequestResolves(i, response)
  \/ FinishSettle

SpecScored == Init /\ [][NextScored]_vars

\* String.prototype.trim on the texts explored: the whitespace-only text
\* becomes empty, the others have no leading or trailing whitespace.
Trim(s) == IF s = " " THEN "" ELSE s
\* isSubmittable of spec 4.1: both texts non-empty after trimming.
IsSubmittable == Trim(stack) # "" /\ Trim(techIdea) # ""

\* ------------------------------------------------- steps, as seen in state
\* A step in which handleSubmit was invoked (a submission was issued).
SubmitStep == Len(subs') = Len(subs) + 1
\* A step in which the request of submission i resolved.
ResolveStep(i) ==
  i \in DOMAIN subs /\ subs[i].request = "pending" /\ subs'[i].request = "resolved"
\* The cells as useState initialises them (app.js:8-10): the Idle view.
IdleCells == << Null, FALSE, messages[1] >>

\* ------------------------------------------------------------------ claims

\* C1: once submission B has been issued, the response of an earlier
\* submission A (resolved with or without entries, or rejected) changes
\* neither the loading flag nor the result.
C1_StaleResponseIgnored ==
  [][ \A i \in DOMAIN subs :
        ( /\ i < Len(subs)
          /\ \/ (subs[i].request = "pending" /\ subs'[i].request # "pending")
             \/ (cont = i /\ cont' = 0) )
        => (loading' = loading /\ result' = result) ]_vars

\* C2: handleSubmit invoked while stack or ideaDescription is empty leaves
\* loading, result and loadingText as they were, starts no rotation activity
\* and sends no request.
C2_InvalidSubmitIsNoOp ==
  [][ (SubmitStep /\ (stack = "" \/ techIdea = ""))
        => ( /\ UNCHANGED cells
             /\ requests' = requests
             /\ timers' = timers
             /\ subs'[Len(subs')].rotation = "none" ) ]_vars

\* C3: when the request of the latest submission has rejected, the state is
\* not Loading, and no handleSubmit promise is ever rejected (nothing is
\* thrown past handleSubmit).
C3_FailureLeavesLoading ==
  \A i \in DOMAIN subs :
    subs[i].request = "rejected"
      => (subs[i].handle # "rejected" /\ (i = Len(subs) => ~loading))

\* C4: a response with an empty result sequence leaves a state that is not
\* Succeeded and that differs from the Idle state the component starts in.
C4_EmptyIsFailed ==
  [][ \A i \in DOMAIN subs :
        (ResolveStep(i) /\ received'.present /\ received'.result = << >>)
        => (result' = Null /\ cells' # IdleCells) ]_vars

\* C5: a submit with non-empty stack and idea issued from a non-Loading state
\* yields loading = TRUE, the first message on display (index 0) and
\* result = null.
C5_SubmitYieldsLoading ==
  [][ (SubmitStep /\ ~loading /\ stack # "" /\ techIdea # "")
        => ( /\ loading' = TRUE
             /\ loadingText' = "Analyzing Architecture..."
             /\ MsgIndex' = 0
             /\ result' = Null ) ]_vars
\* C5 witness: a second submit was clicked (so the state was not Loading and
\* the inputs were valid) after the first had published an assessment.
C5_Witness ==
  /\ Len(subs) = 2 /\ subs[1].handle = "fulfilled" /\ HasAssessment(received)
  /\ subs[2].request = "pending" /\ subs[2].via = "click"
  /\ loading /\ result = Null /\ MsgIndex = 0

\* C6: a response with at least one entry arrives in state Loading and takes
\* it to Succeeded: the published result is the first entry of that response,
\* and loading is false once the continuation has run.
C6_FirstEntryPublished ==
  [][ /\ \A i \in DOMAIN subs :
           (ResolveStep(i) /\ received'.present /\ Len(received'.result) > 0)
           => (loading /\ cont' = i /\ result' = received'.result[1])
      /\ (cont # 0 /\ cont' = 0)
           => (~loading' /\ result' = received.result[1]
               /\ SubmissionState' = "Succeeded") ]_vars
\* C6 witness: a response of two different entries has been published.
C6_Witness ==
  /\ cont = 0 /\ ~loading /\ received.present /\ Len(received.result) = 2
  /\ received.result[1] # received.result[2]
  /\ result = received.result[1]

\* C7: once every issued request has settled (resolved or rejected) and no
\* continuation is running, the state is not Loading and the submit button is
\* enabled again whenever the inputs are valid.
C7_NoTerminalState ==
  (DOMAIN requests = {} /\ cont = 0)
    => (~loading /\ ((stack # "" /\ techIdea # "") => ~Disabled))

\* C8: a rotation activity sleeps on a timer only while its submission is the
\* latest one and its request is still outstanding: no timer is pending for a
\* settled or superseded submission.
C8_NoOrphanedTimer ==
  /\ \A i \in timers : i = Len(subs) /\ subs[i].request = "pending"
  /\ \A i \in DOMAIN subs :
       subs[i].rotation = "sleeping" => (i = Len(subs) /\ subs[i].request = "pending")
\* C8 witness: the first submission has settled and has been superseded by a
\* second one; its rotation activity has ended and no timer is pending.
C8_Witness ==
  /\ Len(subs) = 2 /\ subs[1].request = "resolved" /\ subs[2].request = "pending"
  /\ subs[1].rotation = "rejected" /\ timers = {}

\* C9: the render never shows the loading indicator and the result panel
\* together.
C9_OnePanel == ~(ShowLoading /\ ShowResult)
\* C9 witness: between setResult and setLoading(false) a result is held while
\* loading is still true, and only the loading indicator shows.
C9_Witness == cont # 0 /\ loading /\ result # Null /\ ShowLoading /\ ~ShowResult

\* C10: the index of the message on display is always 0..3, moves only one
\* step forward at a time, and returns to 0 only in a step that issues a
\* submit.
C10_IndexSteps ==
  [][ /\ MsgIndex \in 0..3 /\ MsgIndex' \in 0..3
      /\ \/ MsgIndex' = MsgIndex
         \/ MsgIndex' = MsgIndex + 1
         \/ (MsgIndex' = 0 /\ SubmitStep) ]_vars
\* C10 witness: a rotation activity has run and written its first message.
C10_Witness ==
  /\ Len(subs) >= 1 /\ subs[Len(subs)].request = "pending"
  /\ loading /\ loadingText = messages[1] /\ MsgIndex = 0

\* C11: while the request of the latest submission is outstanding and the
\* message on display is not yet the last one, that submission's rotation
\* activity is still scheduled (asleep on its 800 ms timer), so that the
\* display goes on to reach index 3.
C11_RotationKeepsAdvancing ==
  \A i \in DOMAIN subs :
    (i = Len(subs) /\ subs[i].request = "pending" /\ MsgIndex < Len(messages) - 1)
      => (subs[i].rotation = "sleeping" /\ i \in timers)

C13_EnabledIffTrimmedNonEmpty ==
  ~loading => (~Disabled <=> IsSubmittable)

\* C14: the number of requests sent equals the number of handleSubmit runs,
\* and the requests in flight are exactly those of the submissions still
\* waiting: nothing is re-sent after an empty or failed response.
C14_OneRequestPerSubmit ==
  /\ sent = Len(subs)
  /\ DOMAIN requests = { i \in DOMAIN subs : subs[i].request = "pending" }
\* C14 witness: one submission got an empty response, another was rejected,
\* and two requests were sent in all.
C14_Witness ==
  /\ Len(subs) = 2 /\ subs[1].request = "resolved"
  /\ received.present /\ received.result = << >>
  /\ subs[2].request = "rejected" /\ DOMAIN requests = {} /\ sent = 2

\* C15: whenever the result panel is shown, its colour is the success colour
\* for a score >= 7, the warning colour for 5 <= score < 7 and the danger
\* colour for a score < 5, for every score 0..10; and getScoreColor maps
\* 7 to success and 5 to warning.
C15_ScoreColor ==
  /\ ShowResult =>
       /\ result.score >= 7 => PanelColor = SuccessColor
       /\ (5 <= result.score /\ result.score < 7) => PanelColor = WarningColor
       /\ result.score < 5 => PanelColor = DangerColor
  /\ getScoreColor(7) = SuccessColor /\ getScoreColor(5) = WarningColor
  /\ getScoreColor(9) = SuccessColor /\ getScoreColor(6) = WarningColor
  /\ getScoreColor(3) = DangerColor
\* C15 witness: the panel is shown for the boundary score 7, in the success
\* colour.
C15_Witness == ShowResult /\ result.score = 7 /\ PanelColor = SuccessColor

\* C16: a form edit changes at most the one field it names and leaves the
\* other fields, loading, result, loadingText and the payload of every
\* request in flight unchanged; a handleSubmit step changes no form field.
C16_EditFrame ==
  [][ /\ (edits' # edits) =>
           /\ Cardinality({ k \in 1..4 : form'[k] # form[k] }) <= 1
           /\ cells' = cells
           /\ requests' = requests
           /\ subs' = subs
      /\ SubmitStep => form' = form ]_vars
\* C16 witness: a field was edited while a request was in flight, so the
\* payload already sent differs from the form.
C16_Witness ==
  /\ edits > 0 /\ loading
  /\ \E i \in DOMAIN requests : requests[i].stack # stack

\* C17: within one Loading period the index of the message on display never
\* decreases, and when a submit is issued no rotation activity of an earlier
\* submission is still pending, so only the new submission's rotation writes
\* the message.
C17_IndexMonotoneWhileLoading ==
  [][ /\ (loading /\ loading' /\ ~SubmitStep) => MsgIndex' >= MsgIndex
      /\ SubmitStep =>
           \A i \in DOMAIN subs : i \notin timers' /\ subs'[i].rotation # "sleeping" ]_vars
\* C17 witness: the first submission settled, its rotation has ended, and the
\* form was submitted again with the button; the second Loading period shows
\* index 0.
C17_Witness ==
  /\ Len(subs) = 2 /\ subs[1].handle = "fulfilled" /\ subs[1].rotation = "rejected"
  /\ subs[2].via = "click" /\ subs[2].request = "pending"
  /\ loading /\ MsgIndex = 0 /\ timers = {}

\* C18: role and latencyRequirement always hold one of their four option
\* values, and the state before any edit or submit is Idle with the first
\* option of each, empty stack and idea, loading false and result null.
C18_EnumeratedFields ==
  /\ role \in Roles /\ Cardinality(Roles) = 4
  /\ latencyReq \in Latencies /\ Cardinality(Latencies) = 4
  /\ (edits = 0 /\ Len(subs) = 0) =>
       /\ role = "Solo Founder" /\ latencyReq = "Real-time (<200ms)"
       /\ stack = "" /\ techIdea = ""
       /\ loading = FALSE /\ result = Null /\ SubmissionState = "Idle"
\* C18 witness: both selects have been changed to another option.
C18_Witness ==
  /\ edits = 2 /\ role \in Roles \ {"Solo Founder"}
  /\ latencyReq \in Latencies \ {"Real-time (<200ms)"}

====
